---- MODULE Spec2Model ----
(***************************************************************************)
(* Reconciliation engine of npws-alerts: the collector process             *)
(* (NPWSAlertsApp + Scheduler + DataProcessor) working on the SQLite store *)
(* (NPWSDatabase + DatabaseSchema).                                        *)
(*                                                                         *)
(* One syncAll invocation is a sequence of steps separated by the awaits   *)
(* of the code; each step is one action.  Upstream answers (reserve fetch, *)
(* override file, alert fetches) and storage failures are inputs drawn     *)
(* with \E at the step that consumes them.                                 *)
(***************************************************************************)
EXTENDS Integers, Sequences, FiniteSets, TLC

VARIABLES
    alerts,         \* table alerts: set of rows
    reserves,       \* table reserves: set of rows
    park_mappings,  \* table park_mappings: set of rows
    sync_history,   \* table sync_history: sequence of rows, id = index
    isRunning,      \* Scheduler.isRunning
    task,           \* Scheduler.task ("null" or "scheduled")
    appPc,          \* position of NPWSAlertsApp.start()
    run,            \* the syncAll invocations in flight, per caller
    lastLog,        \* the lines the Scheduler wrote to the console in its last step
                    \* (a call, or the rest of runSync after its await)
    env,            \* the environment of this behaviour (what upstream and storage may do)
    server,         \* the web server process ("down" or "listening")
    csv,            \* the last call of loadManualMappings: the file it found, its result
    hist,           \* sync_history with its start times, and the last getSyncHistory call
    scheduler       \* Scheduler.cronSchedule, the cron tasks scheduled and not stopped,
                    \* and the last call of a method of the Scheduler from outside

vars == <<alerts, reserves, park_mappings, sync_history, isRunning, task,
          appPc, run, lastLog, env, server, csv, hist, scheduler>>

-----------------------------------------------------------------------------
(* Bounds of the model *)

MaxRuns == 2

MaxFetch == 2

\* Runs recorded in the audit log when its query is examined
MaxHistory == 4

\* Characters in a line of the override file when its parsing is examined
MaxLineLen == 5

\* Calls of updateSchedule(), start() and stop() from outside the application
MaxCalls == 2

-----------------------------------------------------------------------------
(* Upstream data the inputs are drawn from *)

NULL == "NULL"

ParkIds == {"P1", "P2", "P3", "P4"}

\* A park.Name that is truthy but no string (the fetcher's validation lets it pass)
NotAString == "<number>"

\* park.Name as delivered by the alert source for each park id
ParkName ==
    [p \in ParkIds |->
        CASE p = "P1" -> IF env = "scenario" THEN "Wollemi NP"
                         ELSE "WOLLEMI NATIONAL PARK"
          [] p = "P2" -> "Blue Gum Flora Reserve"
          [] p = "P4" -> "Wollemi National Park (CCA Zone 1)"
          [] OTHER    -> NotAString]

\* SQL LOWER() on the names that occur
LOWER(s) ==
    CASE s = "WOLLEMI NATIONAL PARK"  -> "wollemi national park"
      [] s = "Wollemi National Park"  -> "wollemi national park"
      [] s = "Blue Gum Flora Reserve" -> "blue gum flora reserve"
      [] s = "Yengo National Park"    -> "yengo national park"
      [] s = "Wollemi National Park (CCA Zone 1)" -> "wollemi national park (cca zone 1)"
      [] s = "NPWS Managed Other"     -> "npws managed other"
      [] s = "Wollemi NP"             -> "wollemi np"
      [] s = "WOLLEMI NP"             -> "wollemi np"
      [] OTHER                        -> s

\* Flattened alerts as AlertsFetcher.fetchAlerts returns them (ID, Park.Id, Title)
Item(id, park, title) == [ID |-> id, Park |-> park, Title |-> title]

\* Every sequence over S of length at most n
SeqsUpTo(S, n) == UNION { [1..k -> S] : k \in 0..n }

\* FetchResult<T>: success with data, or a failure
Fetched(data) == [success |-> TRUE, data |-> data]

FAILED == [success |-> FALSE, data |-> <<>>]

\* What AlertsFetcher.fetchAlerts can return for one horizon, over the given alerts
FetchResults(items) == { Fetched(d) : d \in SeqsUpTo(items, MaxFetch) } \cup {FAILED}

\* What GeoDataFetcher.fetchAllReserves can return: FAILED or a catalog
\* (one feature per OBJECTID)
Catalog1 ==
    << [object_id |-> 1, name |-> "Wollemi National Park", location |-> NULL] >>

Catalog2 ==
    << [object_id |-> 1, name |-> "Yengo National Park", location |-> NULL],
       [object_id |-> 2, name |-> "Wollemi National Park", location |-> NULL] >>

ReserveCatalogs == { <<>>, Catalog1, Catalog2 }

\* Catalogs in which more than one tier can find a reserve for a park name
TierRows ==
    [ plain    |-> [object_id |-> 1, name |-> "Wollemi National Park", location |-> NULL],
      zoned    |-> [object_id |-> 3, name |-> "Wollemi National Park (CCA Zone 1)",
                    location |-> NULL],
      bucket   |-> [object_id |-> 4, name |-> "NPWS Managed Other",
                    location |-> "Blue Gum Flora Reserve"],
      named    |-> [object_id |-> 5, name |-> "Blue Gum Flora Reserve", location |-> NULL],
      bucketed |-> [object_id |-> 6, name |-> "NPWS Managed Other",
                    location |-> "Wollemi National Park (CCA Zone 1)"] ]

\* The reserve of the abbreviated-name scenario, and the catalogs that carry
\* it: under its full name, and under the park's name in other case
ScenarioReserve ==
    [object_id |-> 42, name |-> "Wollemi National Park", location |-> NULL]

ScenarioCatalogs ==
    { << ScenarioReserve >>, << [ScenarioReserve EXCEPT !.name = "WOLLEMI NP"] >> }

TierCatalogs ==
    { << TierRows.plain, TierRows.bucket, TierRows.bucketed >>,
      << TierRows.plain, TierRows.zoned, TierRows.bucket, TierRows.named >>,
      << TierRows.bucketed >> }

\* Contents of data/manual-park-mappings.csv as loadManualMappings returns them
\* (object_id: number | null; NullObjectId stands for null)
NullObjectId == 0

OverrideFiles ==
    { <<>>,
      << [park_id |-> "P1", object_id |-> 1] >>,
      << [park_id |-> "P1", object_id |-> NullObjectId] >> }

-----------------------------------------------------------------------------
(* utils/csvMappingLoader.ts.  A line of the override file is a sequence of    *)
(* characters; a value that is `T | null` is a sequence of at most one T.      *)

\* String.prototype.trim on one end: leading blanks removed
RECURSIVE trimStart(_)
trimStart(s) ==
    IF s # <<>> /\ Head(s) = " " THEN trimStart(Tail(s)) ELSE s

\* String.prototype.trim on the other end: trailing blanks removed
RECURSIVE trimEnd(_)
trimEnd(s) ==
    IF s # <<>> /\ s[Len(s)] = " " THEN trimEnd(SubSeq(s, 1, Len(s) - 1)) ELSE s

\* String.prototype.trim
trim(s) == trimEnd(trimStart(s))

\* trimmedLine.split(','): the parts between the commas, cur being the part
\* read so far
RECURSIVE split(_, _)
split(s, cur) ==
    IF s = <<>> THEN << cur >>
    ELSE IF Head(s) = "," THEN << cur >> \o split(Tail(s), <<>>)
    ELSE split(Tail(s), Append(cur, Head(s)))

\* The characters of a string as a string
RECURSIVE Text(_)
Text(s) == IF s = <<>> THEN "" ELSE Head(s) \o Text(Tail(s))

DigitChars == << "0", "1", "2", "3", "4", "5", "6", "7", "8", "9" >>

IsDigit(ch) == \E i \in DOMAIN DigitChars : DigitChars[i] = ch

DigitValue(ch) == (CHOOSE i \in DOMAIN DigitChars : DigitChars[i] = ch) - 1

\* The longest prefix of s made of digits
RECURSIVE LeadingDigits(_)
LeadingDigits(s) ==
    IF s # <<>> /\ IsDigit(Head(s)) THEN << Head(s) >> \o LeadingDigits(Tail(s)) ELSE <<>>

\* The number a string of digits denotes in base 10
RECURSIVE Decimal(_)
Decimal(ds) ==
    IF ds = <<>> THEN 0
    ELSE 10 * Decimal(SubSeq(ds, 1, Len(ds) - 1)) + DigitValue(ds[Len(ds)])

\* parseInt(s, 10): leading blanks are skipped, a sign is read, then the digits
\* up to the first character that is none; no digit there gives NaN
parseInt(s) ==
    LET t      == trimStart(s)
        signed == t # <<>> /\ Head(t) \in {"+", "-"}
        body   == IF signed THEN Tail(t) ELSE t
        ds     == LeadingDigits(body)
    IN  IF ds = <<>> THEN [isNaN |-> TRUE, value |-> 0]
        ELSE [isNaN |-> FALSE,
              value |-> IF signed /\ Head(t) = "-" THEN 0 - Decimal(ds) ELSE Decimal(ds)]

\* parts[i] || '' for a part that may be missing
PartOr(parts, i) == IF i <= Len(parts) THEN parts[i] ELSE <<>>

\* text || null (text || undefined for the notes)
OrNull(s) == IF s = <<>> THEN <<>> ELSE << Text(s) >>

\* The ManualMapping built from the parts of one line
ManualMapping(parts) ==
    LET object_id_str == PartOr(parts, 3)
        parsed        == parseInt(object_id_str)
    IN  [park_id      |-> Text(parts[1]),
         park_name    |-> Text(parts[2]),
         object_id    |-> IF object_id_str # <<>> /\ ~parsed.isNaN
                          THEN << parsed.value >> ELSE <<>>,
         reserve_name |-> OrNull(PartOr(parts, 4)),
         notes        |-> OrNull(PartOr(parts, 5))]

\* The loop over the lines: blank lines and comments are skipped, the first
\* other line is the header, a line of fewer than two parts or without park_id
\* is skipped, any other line is pushed
RECURSIVE ParseLines(_, _, _)
ParseLines(lines, headerParsed, mappings) ==
    IF lines = <<>> THEN mappings
    ELSE LET trimmedLine == trim(Head(lines))
             parts       == [i \in DOMAIN split(trimmedLine, <<>>) |->
                                trim(split(trimmedLine, <<>>)[i])]
         IN  IF trimmedLine = <<>> \/ Head(trimmedLine) = "#"
             THEN ParseLines(Tail(lines), headerParsed, mappings)
             ELSE IF ~headerParsed
             THEN ParseLines(Tail(lines), TRUE, mappings)
             ELSE IF Len(parts) < 2
             THEN ParseLines(Tail(lines), headerParsed, mappings)
             ELSE IF parts[1] = <<>>
             THEN ParseLines(Tail(lines), headerParsed, mappings)
             ELSE ParseLines(Tail(lines), headerParsed,
                             Append(mappings, ManualMapping(parts)))

\* The override file as the process finds it: not there, there but not
\* readable, or the lines of its content
MissingCsv == [exists |-> FALSE, readable |-> FALSE, lines |-> <<>>]

UnreadableCsv == [exists |-> TRUE, readable |-> FALSE, lines |-> <<>>]

Csv(lines) == [exists |-> TRUE, readable |-> TRUE, lines |-> lines]

\* A loader that passes the failure to read the file on to its caller
loadManualMappingsStrict(disk) ==
    IF ~(disk.exists /\ disk.readable) THEN [threw |-> TRUE, mappings |-> <<>>]
    ELSE [threw |-> FALSE, mappings |-> ParseLines(disk.lines, FALSE, <<>>)]

\* loadManualMappings(csvPath): what it returns, and whether it throws
loadManualMappings(disk) ==
    IF ~disk.exists THEN [threw |-> FALSE, mappings |-> <<>>]
    ELSE IF ~disk.readable THEN [threw |-> FALSE, mappings |-> <<>>]
    ELSE [threw |-> FALSE, mappings |-> ParseLines(disk.lines, FALSE, <<>>)]

\* The entries of the override table as the database method reads them
Entries(mappings) ==
    [i \in DOMAIN mappings |->
        [park_id   |-> mappings[i].park_id,
         object_id |-> IF mappings[i].object_id = <<>> THEN NullObjectId
                       ELSE mappings[i].object_id[1]]]

\* The first line of data/manual-park-mappings.csv
CsvHeader == << "p", "a", "r", "k", "_", "i", "d", ",", "p", "a", "r", "k", "_",
                "n", "a", "m", "e", ",", "o", "b", "j", "e", "c", "t", "_", "i", "d" >>

\* The override files of the model: P1 mapped to object 1, P1 without target
CsvP1To1 == Csv(<< CsvHeader, << "P", "1", ",", "W", ",", "1" >> >>)

CsvP1ToNull == Csv(<< << "#", " ", "x" >>, CsvHeader, << "P", "1", ",", "W", "," >> >>)

\* The environments: in one behaviour the upstream, the storage and the operator
\* vary along the dimensions of one of them.
\*   "alerts":   the alert lists vary (an alert is listed under one park or another)
\*   "records":  a fetched record cannot be processed
\*   "faults":   the storage fails
\*   "matching": the reserve catalog and the override file vary
\*   "manual":   the operator acts: runNow() is called, also before the schedule
\*               is started, and the process is sent a termination signal
\*   "invalidCron": CRON_SCHEDULE is no cron expression
\*   "tiers":    park names and catalogs for which several matching tiers apply
\*   "scenario": the alert source abbreviates the name of park P1
\*   "server":   the web server is started, with an override file in place or not
\*   "reschedule": code that embeds the Scheduler calls its updateSchedule(),
\*               start() and stop(); the alert source lists no alert
\*   In "matching" the override file may also be missing or unreadable.
Environments ==
    {"alerts", "records", "faults", "matching", "manual", "invalidCron", "tiers",
     "scenario", "server", "reschedule"}

EnvFetchItems(e) ==
    CASE e = "alerts"  -> { Item("A1", "P1", "t1"), Item("A1", "P2", "t2") }
      [] e = "records" -> { Item("A1", "P1", "t1"), Item("A3", "P3", "t1") }
      [] e = "tiers"   -> { Item("A1", "P4", "t1"), Item("A2", "P2", "t1") }
      [] e = "reschedule" -> {}
      [] OTHER         -> { Item("A1", "P1", "t1") }

EnvReserveResults(e) ==
    CASE e = "matching" -> { Fetched(d) : d \in ReserveCatalogs } \cup {FAILED}
      [] e = "tiers"    -> { Fetched(d) : d \in TierCatalogs } \cup {FAILED}
      [] e = "scenario" -> { Fetched(d) : d \in ScenarioCatalogs } \cup {FAILED}
      [] OTHER          -> { Fetched(Catalog1), FAILED }

\* What may be at the path of the override file
EnvCsvFiles(e) ==
    CASE e = "matching" -> { MissingCsv, UnreadableCsv, CsvP1To1, CsvP1ToNull }
      [] e = "server"   -> { MissingCsv, CsvP1To1 }
      [] OTHER          -> { MissingCsv }

\* The override entries a load may read
EnvOverrideFiles(e) ==
    { Entries(loadManualMappings(disk).mappings) : disk \in EnvCsvFiles(e) }

\* Whether a storage statement may fail (true and false: it may; true only: it never does)
EnvStorageOk(e) ==
    CASE e = "faults" -> BOOLEAN
      [] OTHER        -> {TRUE}

\* Whether runNow() is called while NPWSAlertsApp.start() is still awaiting
EnvEarlyRunNow(e) == e = "manual"

\* Whether the web server is started
EnvServer(e) == e = "server"

\* Whether SIGINT or SIGTERM is sent to the process
EnvSignals(e) == e = "manual"

\* Whether the methods of the Scheduler are called from outside the application
EnvReschedule(e) == e = "reschedule"

\* The expressions updateSchedule() is called with
Expressions == {"0 * * * *", "*/5 * * * *", "every hour"}

\* config.cronSchedule (CRON_SCHEDULE, hourly by default)
EnvCronSchedule(e) ==
    CASE e = "invalidCron" -> "every hour"
      [] OTHER             -> "0 * * * *"

-----------------------------------------------------------------------------
(* NPWSDatabase: the statements of database.ts as operators on table values *)

\* The natural key of an alert row
NaturalKey(row) == <<row.alert_id, row.park_id, row.is_future>>

\* INSERT ... ON CONFLICT(alert_id, is_future) DO UPDATE SET park_id, alert_title, ...
\* is_active is not among the inserted columns (the schema default 1 applies to a
\* new row) and is not among the updated columns.
upsertAlert(tbl, alert) ==
    LET conflict == { row \in tbl : /\ row.alert_id = alert.alert_id
                                   /\ row.is_future = alert.is_future }
    IN  IF conflict = {}
        THEN tbl \cup { [alert_id    |-> alert.alert_id,
                         park_id     |-> alert.park_id,
                         alert_title |-> alert.alert_title,
                         is_future   |-> alert.is_future,
                         is_active   |-> 1] }
        ELSE (tbl \ conflict)
             \cup { [row EXCEPT !.park_id     = alert.park_id,
                                !.alert_title = alert.alert_title] : row \in conflict }

\* db.transaction: upsertAlert for every record, in order
RECURSIVE upsertAlerts(_, _)
upsertAlerts(tbl, recs) ==
    IF recs = <<>> THEN tbl
    ELSE upsertAlerts(upsertAlert(tbl, Head(recs)), Tail(recs))

\* An insert that replaces the table by the row inserted
upsertReserveReplacing(tbl, reserve) == {reserve}

\* An insert that keeps the row already stored for the object_id
upsertReserveAppend(tbl, reserve) == tbl \cup {reserve}

\* INSERT ... ON CONFLICT(object_id) DO UPDATE SET name, ...
upsertReserve(tbl, reserve) ==
    { row \in tbl : row.object_id # reserve.object_id } \cup {reserve}

\* db.transaction: upsertReserve for every record, in order
RECURSIVE upsertReserves(_, _)
upsertReserves(tbl, recs) ==
    IF recs = <<>> THEN tbl
    ELSE upsertReserves(upsertReserve(tbl, Head(recs)), Tail(recs))

\* A lookup that takes any reserve for any name
getReserveByNameAny(tbl, name) == tbl

\* SELECT * FROM reserves WHERE LOWER(name) = LOWER(?): the rows stmt.get may return
getReserveByName(tbl, name) ==
    { row \in tbl : LOWER(row.name) = LOWER(name) }

\* A lookup that never finds a row
getParkMappingNone(tbl, parkId) == {}

\* SELECT * FROM park_mappings WHERE park_id = ?
getParkMapping(tbl, parkId) ==
    { row \in tbl : row.park_id = parkId }

\* INSERT ... ON CONFLICT(park_id) DO UPDATE SET object_id, ...
upsertParkMapping(tbl, mapping) ==
    { row \in tbl : row.park_id # mapping.park_id } \cup {mapping}

\* UPDATE alerts SET is_active = 0 (one statement: all rows or none)
markAllAlertsInactive(tbl) ==
    { [row EXCEPT !.is_active = 0] : row \in tbl }

\* The park name without its parenthetical zone qualifier
StripCCAZone(name) ==
    CASE name = "Wollemi National Park (CCA Zone 1)" -> "Wollemi National Park"
      [] OTHER -> name

\* Exact match retried on the name stripped of the zone qualifier
getReserveByNameIgnoringCCAZone(tbl, name) ==
    getReserveByName(tbl, StripCCAZone(name))

\* The catalog-wide name of reserves that have no name of their own
PlaceholderName == "NPWS Managed Other"

\* Reserves carrying the placeholder name whose location is the park name
getReserveByLocationPattern(tbl, name) ==
    { row \in tbl : /\ row.name = PlaceholderName
                    /\ row.location # NULL
                    /\ LOWER(row.location) = LOWER(name) }

\* reserve.location || reserve.name
ReserveDisplayName(reserve) ==
    IF reserve.location # NULL THEN reserve.location ELSE reserve.name

\* One pass over the override entries, in file order: an entry with a target
\* creates the mapping of a park that has none; an existing row is left alone;
\* a target that is no reserve violates the foreign key.
RECURSIVE ApplyOverrides(_, _, _)
ApplyOverrides(pm, res, file) ==
    IF file = <<>> THEN [ok |-> TRUE, tbl |-> pm]
    ELSE LET e == Head(file)
             target == { r \in res : r.object_id = e.object_id }
         IN  IF e.object_id = NullObjectId \/ getParkMapping(pm, e.park_id) # {}
             THEN ApplyOverrides(pm, res, Tail(file))
             ELSE IF target = {}
             THEN [ok |-> FALSE, tbl |-> pm]
             ELSE ApplyOverrides(
                      upsertParkMapping(pm,
                          [park_id      |-> e.park_id,
                           park_name    |-> ParkName[e.park_id],
                           object_id    |-> e.object_id,
                           reserve_name |-> ReserveDisplayName(CHOOSE r \in target : TRUE)]),
                      res, Tail(file))

\* db.loadManualMappingsFromCSV(): the override entries applied as one batch;
\* a storage failure leaves park_mappings as it was and is thrown
loadManualMappingsFromCSV(pm, res, file) ==
    LET applied == ApplyOverrides(pm, res, file)
    IN  IF applied.ok THEN applied ELSE [ok |-> FALSE, tbl |-> pm]

\* db.loadManualMappingsFromCSV() from the file at the path: the file is read by
\* loadManualMappings, whose exception, if any, is thrown on
LoadOverrides(pm, res, disk) ==
    LET read == loadManualMappings(disk)
        file == Entries(read.mappings)
        load == IF read.threw THEN [ok |-> FALSE, tbl |-> pm]
                ELSE loadManualMappingsFromCSV(pm, res, file)
    IN  [ok |-> load.ok, tbl |-> load.tbl, file |-> file,
         call |-> [disk |-> disk, pc |-> "returned", threw |-> read.threw,
                   mappings |-> read.mappings]]

\* No call of loadManualMappings yet
NoCsvCall == [disk |-> MissingCsv, pc |-> "idle", threw |-> FALSE, mappings |-> <<>>]

\* The entries of the override file that name a target for a park without mapping
NewOverrides(pm, file) ==
    { file[i] : i \in { j \in DOMAIN file : /\ file[j].object_id # NullObjectId
                                             /\ getParkMapping(pm, file[j].park_id) = {} } }

\* The permutations of 1..n
Perms(n) == { p \in [1..n -> 1..n] : \A i, j \in 1..n : p[i] = p[j] => i = j }

\* ORDER BY started_at DESC: the orders the statement may give the rows in
\* (rows of equal started_at in any order)
OrderByStartedAtDesc(tbl) ==
    { [i \in DOMAIN tbl |-> tbl[p[i]]] :
        p \in { q \in Perms(Len(tbl)) :
                  \A i, j \in DOMAIN tbl :
                     i < j => tbl[q[i]].started_at >= tbl[q[j]].started_at } }

\* A history query that lists the rows as they were inserted
getSyncHistoryOldestFirst(tbl, limit) ==
    { SubSeq(tbl, 1, IF limit < Len(tbl) THEN limit ELSE Len(tbl)) }

\* SELECT * FROM sync_history ORDER BY started_at DESC LIMIT ?: the results
\* the statement may return
getSyncHistory(tbl, limit) ==
    { SubSeq(rows, 1, IF limit < Len(rows) THEN limit ELSE Len(rows)) :
        rows \in OrderByStartedAtDesc(tbl) }

\* The Scheduler as its constructor leaves it, for the expression configured
NewScheduler(expression) ==
    [cronSchedule |-> expression, tasks |-> 0, calls |-> 0, call |-> "none",
     arg |-> "", threw |-> FALSE]

\* No run recorded with its start time, no history query made
NoHistory == [rows |-> <<>>, limit |-> 0, result |-> <<>>, pc |-> "open"]

\* ProcessingStats as syncAll, syncReserves and syncAlerts initialise it
ZeroStats ==
    [alertsFetched |-> 0, alertsProcessed |-> 0,
     reservesFetched |-> 0, reservesProcessed |-> 0, errors |-> 0]

\* INSERT INTO sync_history (sync_type, sync_status, started_at) VALUES (?, 'running', ...)
recordSyncStart(tbl) ==
    Append(tbl, [sync_status        |-> "running",
                 alerts_fetched     |-> 0,
                 alerts_processed   |-> 0,
                 reserves_fetched   |-> 0,
                 reserves_processed |-> 0,
                 errors             |-> 0])

\* The update without its WHERE clause: every row is rewritten
recordSyncCompleteAll(tbl, syncId, stats, status) ==
    [id \in DOMAIN tbl |->
        [sync_status        |-> status,
         alerts_fetched     |-> stats.alertsFetched,
         alerts_processed   |-> stats.alertsProcessed,
         reserves_fetched   |-> stats.reservesFetched,
         reserves_processed |-> stats.reservesProcessed,
         errors             |-> stats.errors]]

\* UPDATE sync_history SET sync_status = ?, alerts_fetched = ?, ... WHERE id = ?
recordSyncComplete(tbl, syncId, stats, status) ==
    [id \in DOMAIN tbl |->
        IF id = syncId
        THEN [sync_status        |-> status,
              alerts_fetched     |-> stats.alertsFetched,
              alerts_processed   |-> stats.alertsProcessed,
              reserves_fetched   |-> stats.reservesFetched,
              reserves_processed |-> stats.reservesProcessed,
              errors             |-> stats.errors]
        ELSE tbl[id]]

-----------------------------------------------------------------------------
(* DataProcessor *)

IsFuture(isFuture) == IF isFuture THEN 1 ELSE 0

\* /Flora\s+Reserves?$/i on the names that occur
IsFloraReserveName(name) == name \in {"Blue Gum Flora Reserve"}

\* A chain that tries the location first and the exact name last
MatchCandidatesLastFirst(res, name) ==
    LET exact == getReserveByName(res, name)
        cca   == getReserveByNameIgnoringCCAZone(res, name)
        flora == IF IsFloraReserveName(name)
                 THEN getReserveByLocationPattern(res, name) ELSE {}
    IN  IF flora # {} THEN flora ELSE IF cca # {} THEN cca ELSE exact

\* processAlerts, the tiers tried for a park without mapping: exact name, then
\* the name without CCA zone, then (Flora Reserves only) the location
MatchCandidates(res, name) ==
    LET exact == getReserveByName(res, name)
        cca   == getReserveByNameIgnoringCCAZone(res, name)
        flora == IF IsFloraReserveName(name)
                 THEN getReserveByLocationPattern(res, name) ELSE {}
    IN  IF exact # {} THEN exact ELSE IF cca # {} THEN cca ELSE flora

\* park.Name.match(...) on a name that is no string throws a TypeError, which the
\* loop's catch turns into a failed record; it is reached when the park has no
\* mapping and the first two tiers found nothing
RecordThrows(pm, res, alert) ==
    /\ getParkMapping(pm, alert.Park) = {}
    /\ ParkName[alert.Park] = NotAString
    /\ getReserveByName(res, ParkName[alert.Park]) = {}
    /\ getReserveByNameIgnoringCCAZone(res, ParkName[alert.Park]) = {}

\* Always re-matching, whether or not the park has a mapping
ResolveMappingAlways(pm, res, park) ==
    LET found == MatchCandidates(res, ParkName[park])
    IN  IF found = {} THEN {pm}
        ELSE { upsertParkMapping(pm,
                   [park_id      |-> park,
                    park_name    |-> ParkName[park],
                    object_id    |-> reserve.object_id,
                    reserve_name |-> ReserveDisplayName(reserve)]) : reserve \in found }

\* processAlerts, "if (!mapping) {...}": the park_mappings tables the step can
\* leave (one per row the lookup may return)
ResolveMapping(pm, res, park) ==
    IF getParkMapping(pm, park) # {} THEN {pm}
    ELSE LET found == MatchCandidates(res, ParkName[park])
         IN  IF found = {} THEN {pm}
             ELSE { upsertParkMapping(pm,
                        [park_id      |-> park,
                         park_name    |-> ParkName[park],
                         object_id    |-> reserve.object_id,
                         reserve_name |-> ReserveDisplayName(reserve)]) : reserve \in found }

\* The alertRecord built for one fetched alert
AlertRecord(alert, isFuture) ==
    [alert_id    |-> alert.ID,
     park_id     |-> alert.Park,
     alert_title |-> alert.Title,
     is_future   |-> IsFuture(isFuture),
     is_active   |-> 1]

\* processAlerts, the loop over the fetched alerts: the outcomes
\* [pm: park_mappings after the loop, alertRecords: the batch built]
RECURSIVE ProcessLoop(_, _, _, _, _)
ProcessLoop(pm, res, fetched, isFuture, alertRecords) ==
    IF fetched = <<>> THEN { [pm |-> pm, alertRecords |-> alertRecords] }
    ELSE LET alert == Head(fetched)
         IN  IF RecordThrows(pm, res, alert)
             THEN ProcessLoop(pm, res, Tail(fetched), isFuture, alertRecords)
             ELSE UNION { ProcessLoop(pm1, res, Tail(fetched), isFuture,
                                      Append(alertRecords, AlertRecord(alert, isFuture)))
                          : pm1 \in ResolveMapping(pm, res, alert.Park) }

\* processAlerts(data, isFuture): the loop, then the batch upsert, which returns
\* the number of records or, when the storage fails, is rolled back and
\* answered with 0.  The outcomes [alerts, pm, processed].
processAlerts(tbl, pm, res, data, isFuture, storageOk) ==
    { [alerts    |-> IF storageOk THEN upsertAlerts(tbl, out.alertRecords) ELSE tbl,
       pm        |-> out.pm,
       processed |-> IF storageOk THEN Len(out.alertRecords) ELSE 0]
      : out \in ProcessLoop(pm, res, data, isFuture, <<>>) }

\* syncAlerts, one horizon: processAlerts when the fetch succeeded, else nothing
\* is written
SyncHorizon(tbl, pm, res, result, isFuture, storageOk) ==
    IF result.success
    THEN processAlerts(tbl, pm, res, result.data, isFuture, storageOk)
    ELSE { [alerts |-> tbl, pm |-> pm, processed |-> 0] }

\* syncAlerts, one horizon: stats after it, given the result of its fetch and
\* what processAlerts returned
HorizonStats(stats, result, processed) ==
    IF ~result.success
    THEN [stats EXCEPT !.errors = @ + 1]
    ELSE [stats EXCEPT !.alertsFetched = @ + Len(result.data),
                       !.alertsProcessed = @ + processed]

\* syncReserves after the fetch: the stats it returns and the reserves table
syncReserves(tbl, result, storageOk) ==
    IF ~result.success
    THEN [reserves |-> tbl,
          stats |-> [ZeroStats EXCEPT !.errors = 1]]
    ELSE IF storageOk
    THEN [reserves |-> upsertReserves(tbl, result.data),
          stats |-> [ZeroStats EXCEPT !.reservesFetched = Len(result.data),
                                      !.reservesProcessed = Len(result.data)]]
    ELSE [reserves |-> tbl,
          stats |-> [ZeroStats EXCEPT !.reservesFetched = Len(result.data),
                                      !.errors = 1]]

\* The three tables as one value
Tables(a, r, pm) == [alerts |-> a, reserves |-> r, park_mappings |-> pm]

\* One syncAll from its first statement to its last with nothing in between
\* and a storage that does not fail: the tables it can leave, given the
\* upstream answers in = [reserve, file, current, future]
syncAll(db, in) ==
    LET r == syncReserves(db.reserves, in.reserve, TRUE)
        l == loadManualMappingsFromCSV(db.park_mappings, r.reserves, in.file)
    IN  IF ~l.ok
        THEN { Tables(db.alerts, r.reserves, l.tbl) }
        ELSE UNION {
               { Tables(f.alerts, r.reserves, f.pm)
                 : f \in SyncHorizon(c.alerts, c.pm, r.reserves, in.future, TRUE, TRUE) }
               : c \in SyncHorizon(markAllAlertsInactive(db.alerts), l.tbl,
                                   r.reserves, in.current, FALSE, TRUE) }

-----------------------------------------------------------------------------
(* The collector process *)

\* Who calls syncAll: NPWSAlertsApp.start (the initial sync) and Scheduler.runSync
Callers == {"app", "sched"}

\* A syncAll invocation: its position, its locals (syncId, stats) and, kept for
\* the length of the run, what the upstream answered (reserveOk, current,
\* future), the override entries with a target read for parks that had no
\* mapping (overridden), the alerts table the run started from (before) and
\* the alerts tables the run has committed before its last write (readable);
\* catalog is the list its reserve fetch returned
IdleRun ==
    [pc |-> "idle", syncId |-> 0, stats |-> ZeroStats,
     reserveOk |-> FALSE, catalog |-> <<>>, current |-> FAILED, future |-> FAILED,
     overridden |-> {}, before |-> {}, readable |-> {}]

Init ==
    /\ alerts = {}
    /\ reserves = {}
    /\ park_mappings = {}
    /\ sync_history = <<>>
    /\ isRunning = FALSE
    /\ task = "null"
    /\ appPc = "start"
    /\ run = [c \in Callers |-> IdleRun]
    /\ lastLog = <<>>
    /\ env \in Environments
    /\ server = "down"
    /\ csv = NoCsvCall
    /\ hist = NoHistory
    /\ scheduler = NewScheduler(EnvCronSchedule(env))

\* syncAll up to its first await: recordSyncStart, then syncReserves starts the
\* reserve fetch
SyncAllStart(c) ==
    /\ Len(sync_history) < MaxRuns
    /\ run[c].pc = "idle"
    /\ sync_history' = recordSyncStart(sync_history)
    /\ run' = [run EXCEPT ![c] = [IdleRun EXCEPT !.pc = "fetchReserves",
                                                 !.syncId = Len(sync_history) + 1,
                                                 !.before = alerts]]
    /\ UNCHANGED <<alerts, reserves, park_mappings, scheduler>>

\* A syncReserves whose failed fetch sends the run straight to the alert fetch
ReservesFetchedSkipsAhead(c) ==
    /\ run[c].pc = "fetchReserves"
    /\ \E result \in EnvReserveResults(env), storageOk \in EnvStorageOk(env) :
          /\ result.data = <<>> => storageOk
          /\ LET out == syncReserves(reserves, result, storageOk)
             IN  /\ reserves' = out.reserves
                 /\ run' = [run EXCEPT ![c].pc = IF result.success THEN "reservesSynced"
                                                 ELSE "fetchAlerts",
                                       ![c].reserveOk = result.success,
                                       ![c].catalog = result.data,
                                       ![c].stats = out.stats]
    /\ UNCHANGED <<alerts, park_mappings, sync_history, isRunning, task, appPc, lastLog, env, server, csv, hist, scheduler>>

\* The reserve fetch answers; syncReserves runs to its end and syncAll merges
\* its stats
ReservesFetched(c) ==
    /\ run[c].pc = "fetchReserves"
    /\ \E result \in EnvReserveResults(env), storageOk \in EnvStorageOk(env) :
          /\ result.data = <<>> => storageOk
          /\ LET out == syncReserves(reserves, result, storageOk)
             IN  /\ reserves' = out.reserves
                 /\ run' = [run EXCEPT ![c].pc = "reservesSynced",
                                       ![c].reserveOk = result.success,
                                       ![c].catalog = result.data,
                                       ![c].stats = out.stats]
    /\ UNCHANGED <<alerts, park_mappings, sync_history, isRunning, task, appPc, lastLog, env, server, csv, hist, scheduler>>

\* A syncAlerts that starts its fetches without marking any alert inactive
SyncAlertsBeginNoMark(c) ==
    /\ run[c].pc = "reservesSynced"
    /\ \E disk \in EnvCsvFiles(env), markOk \in EnvStorageOk(env) :
          LET loaded == LoadOverrides(park_mappings, reserves, disk)
          IN  /\ park_mappings' = loaded.tbl
              /\ csv' = loaded.call
              /\ alerts' = alerts
              /\ IF loaded.ok /\ markOk
                 THEN run' = [run EXCEPT ![c].pc = "fetchAlerts",
                                         ![c].overridden = NewOverrides(park_mappings, loaded.file),
                                         ![c].readable = {alerts'}]
                 ELSE run' = [run EXCEPT ![c].pc = "threw"]
    /\ UNCHANGED <<reserves, sync_history, isRunning, task, appPc, lastLog, env, server, hist, scheduler>>

\* A syncAlerts that marks every alert inactive before it loads the override file
SyncAlertsBeginMarkFirst(c) ==
    /\ run[c].pc = "reservesSynced"
    /\ \E disk \in EnvCsvFiles(env), markOk \in EnvStorageOk(env) :
          LET loaded == LoadOverrides(park_mappings, reserves, disk)
          IN  /\ park_mappings' = loaded.tbl
              /\ csv' = loaded.call
              /\ alerts' = IF markOk THEN markAllAlertsInactive(alerts) ELSE alerts
              /\ IF loaded.ok /\ markOk
                 THEN run' = [run EXCEPT ![c].pc = "fetchAlerts",
                                         ![c].overridden = NewOverrides(park_mappings, loaded.file),
                                         ![c].readable = {alerts'}]
                 ELSE run' = [run EXCEPT ![c].pc = "threw"]
    /\ UNCHANGED <<reserves, sync_history, isRunning, task, appPc, lastLog, env, server, hist, scheduler>>

\* syncAlerts up to its await: the override file is loaded, then every alert is
\* marked inactive, then the two alert fetches start.  A storage failure of
\* either statement is thrown out of syncAlerts.
SyncAlertsBegin(c) ==
    /\ run[c].pc = "reservesSynced"
    /\ \E disk \in EnvCsvFiles(env), markOk \in EnvStorageOk(env) :
          LET loaded == LoadOverrides(park_mappings, reserves, disk)
          IN  /\ park_mappings' = loaded.tbl
              /\ csv' = loaded.call
              /\ IF loaded.ok /\ markOk
                 THEN /\ alerts' = markAllAlertsInactive(alerts)
                      /\ run' = [run EXCEPT ![c].pc = "fetchAlerts",
                                            ![c].overridden = NewOverrides(park_mappings, loaded.file),
                                            ![c].readable = {alerts'}]
                 ELSE /\ alerts' = alerts
                      /\ run' = [run EXCEPT ![c].pc = "threw"]
    /\ UNCHANGED <<reserves, sync_history, isRunning, task, appPc, lastLog, env, server, hist, scheduler>>

\* fetchAllAlerts answers and the current horizon is processed
AlertsFetched(c) ==
    /\ run[c].pc = "fetchAlerts"
    /\ \E current \in FetchResults(EnvFetchItems(env)), storageOk \in EnvStorageOk(env) :
       \E out \in SyncHorizon(alerts, park_mappings, reserves, current, FALSE, storageOk) :
          /\ alerts' = out.alerts
          /\ park_mappings' = out.pm
          /\ run' = [run EXCEPT ![c].pc = "currentDone",
                                ![c].current = current,
                                ![c].readable = @ \cup {out.alerts},
                                ![c].stats = HorizonStats(@, current, out.processed)]
    /\ UNCHANGED <<reserves, sync_history, isRunning, task, appPc, lastLog, env, server, csv, hist, scheduler>>

\* The future horizon is processed and syncAlerts returns its stats.  (The two
\* fetches succeed or fail independently of each other and of the store, so the
\* answer of the future fetch is drawn here, where it is first read.)
ProcessFuture(c) ==
    /\ run[c].pc = "currentDone"
    /\ \E future \in FetchResults(EnvFetchItems(env)), storageOk \in EnvStorageOk(env) :
       \E out \in SyncHorizon(alerts, park_mappings, reserves, future, TRUE, storageOk) :
          /\ alerts' = out.alerts
          /\ park_mappings' = out.pm
          /\ run' = [run EXCEPT ![c].pc = "alertsDone",
                                ![c].future = future,
                                ![c].stats = HorizonStats(@, future, out.processed)]
    /\ UNCHANGED <<reserves, sync_history, isRunning, task, appPc, lastLog, env, server, csv, hist, scheduler>>

\* A status that follows the error count
FinalStatusByErrors(stats, threw) ==
    IF threw \/ stats.errors > 0 THEN "failed" ELSE "completed"

\* The status syncAll records: 'failed' in its catch block, 'completed' at the
\* end of its try block
FinalStatus(stats, threw) == IF threw THEN "failed" ELSE "completed"

\* syncAll's try block ends: recordSyncComplete(syncId, stats, 'completed')
SyncAllCompleted(c) ==
    /\ run[c].pc = "alertsDone"
    /\ sync_history' = recordSyncComplete(sync_history, run[c].syncId, run[c].stats,
                                          FinalStatus(run[c].stats, FALSE))
    /\ run' = [run EXCEPT ![c].pc = "returned"]
    /\ UNCHANGED <<alerts, reserves, park_mappings, isRunning, task, appPc, lastLog, env, server, csv, hist, scheduler>>

\* A catch block that rethrows without finalizing the sync_history row
SyncAllFailedSilent(c) ==
    /\ run[c].pc = "threw"
    /\ run' = [run EXCEPT ![c].pc = "returned",
                          ![c].stats = [run[c].stats EXCEPT !.errors = @ + 1]]
    /\ UNCHANGED <<alerts, reserves, park_mappings, sync_history, isRunning, task,
                   appPc, lastLog, env, server, csv, hist, scheduler>>

\* syncAll's catch block: stats.errors++, recordSyncComplete(..., 'failed', message)
SyncAllFailed(c) ==
    /\ run[c].pc = "threw"
    /\ LET stats == [run[c].stats EXCEPT !.errors = @ + 1]
       IN  /\ sync_history' = recordSyncComplete(sync_history, run[c].syncId, stats,
                                                 FinalStatus(stats, TRUE))
           /\ run' = [run EXCEPT ![c].pc = "returned", ![c].stats = stats]
    /\ UNCHANGED <<alerts, reserves, park_mappings, isRunning, task, appPc, lastLog, env, server, csv, hist, scheduler>>

\* One step of the syncAll invocation of caller c
SyncAllStep(c) ==
    \/ ReservesFetched(c)
    \/ SyncAlertsBegin(c)
    \/ AlertsFetched(c)
    \/ ProcessFuture(c)
    \/ SyncAllCompleted(c)
    \/ SyncAllFailed(c)

\* The process has not exited
Alive == appPc \notin {"exited", "fatal"}

\* cron.validate on the expressions that occur
validate(expression) == expression \in {"0 * * * *", "*/5 * * * *"}

\* A start that schedules whatever the expression is
startUnchecked(tsk, expression) ==
    [task |-> "scheduled", threw |-> FALSE, error |-> <<>>, created |-> 1]

\* Scheduler.start(): nothing when a task exists; an Error naming the
\* expression when it is no cron expression; else the task is scheduled
start(tsk, expression) ==
    IF tsk # "null"
    THEN [task |-> tsk, threw |-> FALSE, error |-> <<>>, created |-> 0]
    ELSE IF ~validate(expression)
    THEN [task |-> tsk, threw |-> TRUE,
          error |-> <<"Invalid cron expression: ", expression>>, created |-> 0]
    ELSE [task |-> "scheduled", threw |-> FALSE, error |-> <<>>, created |-> 1]

\* Scheduler.stop(): the task is stopped and forgotten
stop(tsk) == "null"

\* The cron tasks stopped by Scheduler.stop(): the one this.task holds
stopped(tsk) == IF tsk # "null" THEN 1 ELSE 0

\* An update that stops the task and stores the expression before it validates
updateScheduleEager(tsk, cronSchedule, newSchedule) ==
    [task |-> stop(tsk), cronSchedule |-> newSchedule,
     threw |-> ~validate(newSchedule),
     created |-> IF validate(newSchedule) /\ tsk # "null" THEN 1 ELSE 0,
     stopped |-> stopped(tsk)]

\* Scheduler.updateSchedule(newSchedule): an Error when the expression is no
\* cron expression; else stop(), the expression is replaced, and start() when
\* a task existed
updateSchedule(tsk, cronSchedule, newSchedule) ==
    IF ~validate(newSchedule)
    THEN [task |-> tsk, cronSchedule |-> cronSchedule, threw |-> TRUE,
          created |-> 0, stopped |-> 0]
    ELSE LET wasRunning == tsk # "null"
             restarted  == start(stop(tsk), newSchedule)
         IN  IF wasRunning
             THEN [task |-> restarted.task, cronSchedule |-> newSchedule,
                   threw |-> restarted.threw, created |-> restarted.created,
                   stopped |-> stopped(tsk)]
             ELSE [task |-> stop(tsk), cronSchedule |-> newSchedule, threw |-> FALSE,
                   created |-> 0, stopped |-> stopped(tsk)]

\* NPWSAlertsApp.start(): "await this.dataProcessor.syncAll()" begins
AppInitialSync ==
    /\ appPc = "start"
    /\ SyncAllStart("app")
    /\ appPc' = "initialSync"
    /\ UNCHANGED <<isRunning, task, lastLog, env, server, csv, hist, scheduler>>

\* NPWSAlertsApp.start() after the initial sync: this.scheduler.start(), then
\* the shutdown handlers are set up; an Error thrown by start() reaches main's
\* catch, which logs it and exits with code 1
AppSchedulerStart ==
    /\ appPc = "initialSync"
    /\ run["app"].pc = "returned"
    /\ LET started == start(task, scheduler.cronSchedule)
       IN  /\ task' = started.task
           /\ scheduler' = [scheduler EXCEPT !.tasks = @ + started.created]
           /\ appPc' = IF started.threw THEN "fatal" ELSE "running"
           /\ lastLog' = IF started.threw THEN <<"Fatal error:">> \o started.error
                         ELSE lastLog
    /\ run' = [run EXCEPT !["app"] = IdleRun]
    /\ UNCHANGED <<alerts, reserves, park_mappings, sync_history, isRunning, env, server, csv, hist>>

\* A runSync whose skip clears the guard
runSyncSkipClears(log) ==
    \/ /\ isRunning
       /\ lastLog' = Append(log, "Sync already in progress, skipping this run")
       /\ isRunning' = FALSE
       /\ UNCHANGED <<alerts, reserves, park_mappings, sync_history,
                      task, appPc, run, env, server, csv, hist, scheduler>>
    \/ /\ ~isRunning
       /\ isRunning' = TRUE
       /\ SyncAllStart("sched")
       /\ lastLog' = Append(log, "Starting scheduled sync")
       /\ UNCHANGED <<task, appPc, env, server, csv, hist, scheduler>>

\* Scheduler.runSync up to its await: skip when a run is in flight, else set
\* the guard and call syncAll.  log: what the caller has written before.
runSync(log) ==
    \/ /\ isRunning
       /\ lastLog' = Append(log, "Sync already in progress, skipping this run")
       /\ UNCHANGED <<alerts, reserves, park_mappings, sync_history, isRunning,
                      task, appPc, run, env, server, csv, hist, scheduler>>
    \/ /\ ~isRunning
       /\ isRunning' = TRUE
       /\ SyncAllStart("sched")
       /\ lastLog' = Append(log, "Starting scheduled sync")
       /\ UNCHANGED <<task, appPc, env, server, csv, hist, scheduler>>

\* The cron task fires
Tick ==
    /\ Alive
    /\ task = "scheduled"
    /\ runSync(<<>>)

\* Scheduler.runNow(), callable from the construction of the Scheduler on; the
\* constructor of NPWSAlertsApp and the start of the initial sync are one step
RunNow ==
    /\ EnvEarlyRunNow(env)
    /\ appPc \in {"initialSync", "running"}
    /\ runSync(<<"Running sync immediately...">>)

\* A runSync whose guard stays set when syncAll has returned
RunSyncFinallyStuck ==
    /\ Alive
    /\ run["sched"].pc = "returned"
    /\ lastLog' = <<"Sync completed successfully">>
    /\ run' = [run EXCEPT !["sched"] = IdleRun]
    /\ UNCHANGED <<alerts, reserves, park_mappings, sync_history, isRunning, task,
                   appPc, env, server, csv, hist, scheduler>>

\* Scheduler.runSync after its await.  syncAll returns its stats from its try
\* block and from its catch block alike, so the await never rejects: runSync
\* goes on in its try block and logs success, then the finally block clears
\* the guard.
RunSyncFinally ==
    /\ Alive
    /\ run["sched"].pc = "returned"
    /\ lastLog' = <<"Sync completed successfully">>
    /\ isRunning' = FALSE
    /\ run' = [run EXCEPT !["sched"] = IdleRun]
    /\ UNCHANGED <<alerts, reserves, park_mappings, sync_history, task, appPc, env, server, csv, hist, scheduler>>

\* SIGINT or SIGTERM once the handlers are set up: cleanup() stops the
\* scheduler and closes the database, then process.exit(0)
Shutdown ==
    /\ EnvSignals(env)
    /\ appPc = "running"
    /\ task' = stop(task)
    /\ scheduler' = [scheduler EXCEPT !.tasks = @ - stopped(task)]
    /\ appPc' = "exited"
    /\ UNCHANGED <<alerts, reserves, park_mappings, sync_history, isRunning, run,
                   lastLog, env, server, csv, hist>>

\* updateSchedule(newSchedule) is called from outside
UpdateSchedule ==
    /\ EnvReschedule(env)
    /\ appPc = "running"
    /\ scheduler.calls < MaxCalls
    /\ \E newSchedule \in Expressions :
          LET updated == updateSchedule(task, scheduler.cronSchedule, newSchedule)
          IN  /\ task' = updated.task
              /\ scheduler' = [cronSchedule |-> updated.cronSchedule,
                               tasks |-> scheduler.tasks - updated.stopped + updated.created,
                               calls |-> scheduler.calls + 1,
                               call  |-> "updateSchedule",
                               arg   |-> newSchedule,
                               threw |-> updated.threw]
    /\ UNCHANGED <<alerts, reserves, park_mappings, sync_history, isRunning, appPc,
                   run, lastLog, env, server, csv, hist>>

\* start() is called from outside
StartCall ==
    /\ EnvReschedule(env)
    /\ appPc = "running"
    /\ scheduler.calls < MaxCalls
    /\ LET started == start(task, scheduler.cronSchedule)
       IN  /\ task' = started.task
           /\ scheduler' = [scheduler EXCEPT !.tasks = @ + started.created,
                                             !.calls = @ + 1,
                                             !.call  = "start",
                                             !.arg   = "",
                                             !.threw = started.threw]
    /\ UNCHANGED <<alerts, reserves, park_mappings, sync_history, isRunning, appPc,
                   run, lastLog, env, server, csv, hist>>

\* stop() is called from outside
StopCall ==
    /\ EnvReschedule(env)
    /\ appPc = "running"
    /\ scheduler.calls < MaxCalls
    /\ task' = stop(task)
    /\ scheduler' = [scheduler EXCEPT !.tasks = @ - stopped(task),
                                      !.calls = @ + 1,
                                      !.call  = "stop",
                                      !.arg   = "",
                                      !.threw = FALSE]
    /\ UNCHANGED <<alerts, reserves, park_mappings, sync_history, isRunning, appPc,
                   run, lastLog, env, server, csv, hist>>

\* web/server.ts is started: the module opens the database and calls
\* db.loadManualMappingsFromCSV() before it listens; an error thrown there ends
\* the process
ServerStartup ==
    /\ EnvServer(env)
    /\ server = "down"
    /\ \E disk \in EnvCsvFiles(env) :
          LET loaded == LoadOverrides(park_mappings, reserves, disk)
          IN  /\ park_mappings' = loaded.tbl
              /\ csv' = loaded.call
              /\ server' = IF loaded.ok THEN "listening" ELSE "down"
    /\ UNCHANGED <<alerts, reserves, sync_history, isRunning, task, appPc, run,
                   lastLog, env, hist, scheduler>>

\* A request handler of the web server: every route is a GET that runs SELECTs
ServerRequest ==
    /\ server = "listening"
    /\ UNCHANGED vars

Next ==
    \/ AppInitialSync
    \/ AppSchedulerStart
    \/ Tick
    \/ RunNow
    \/ RunSyncFinally
    \/ Shutdown
    \/ UpdateSchedule
    \/ StartCall
    \/ StopCall
    \/ ServerStartup
    \/ ServerRequest
    \/ \E c \in Callers : Alive /\ SyncAllStep(c)

Spec == Init /\ [][Next]_vars

-----------------------------------------------------------------------------
(* The override file loader on the files of a bounded set *)

\* A letter, a digit, the comma, the comment mark and the blank
Alphabet == {"P", "1", ",", "#", " "}

\* The lines of at most MaxLineLen characters
CsvLines == SeqsUpTo(Alphabet, MaxLineLen)

\* A header line and a line that maps park P to object 1
HeaderLine == << "P", ",", "P" >>

DataLine == << "P", ",", "P", ",", "1" >>

\* The files examined: any line, after nothing, a header, a comment or a
\* blank line and a header, or a header and a data line; and before nothing
\* or a data line
CsvFiles ==
    { pre \o << line >> \o post :
        pre  \in { <<>>, << HeaderLine >>, << << "#", "P" >>, HeaderLine >>,
                   << << " " >>, HeaderLine >>, << HeaderLine, DataLine >> },
        line \in CsvLines,
        post \in { <<>>, << DataLine >> } }

\* loadManualMappings(csvPath) is called
LoadManualMappingsCall ==
    /\ csv.pc = "call"
    /\ LET out == loadManualMappings(csv.disk)
       IN  csv' = [csv EXCEPT !.pc = "returned", !.threw = out.threw,
                              !.mappings = out.mappings]
    /\ UNCHANGED <<alerts, reserves, park_mappings, sync_history, isRunning, task,
                   appPc, run, lastLog, env, server, hist, scheduler>>

\* The file is in place when the loader is called
CsvInit ==
    /\ alerts = {}
    /\ reserves = {}
    /\ park_mappings = {}
    /\ sync_history = <<>>
    /\ isRunning = FALSE
    /\ task = "null"
    /\ appPc = "start"
    /\ run = [c \in Callers |-> IdleRun]
    /\ lastLog = <<>>
    /\ env = "matching"
    /\ server = "down"
    /\ hist = NoHistory
    /\ scheduler = NewScheduler(EnvCronSchedule(env))
    /\ csv \in { [NoCsvCall EXCEPT !.disk = Csv(lines), !.pc = "call"] : lines \in CsvFiles }

CsvNext == LoadManualMappingsCall

CsvSpec == CsvInit /\ [][CsvNext]_vars

-----------------------------------------------------------------------------
(* The audit log with its start times, and the query on it *)

\* recordSyncStart: a row is inserted with started_at = CURRENT_TIMESTAMP, which
\* counts seconds: the second of the previous insert, or a later one
HistoryRunStarts ==
    /\ hist.pc = "open"
    /\ Len(hist.rows) < MaxHistory
    /\ \E t \in IF hist.rows = <<>> THEN {1}
                ELSE { hist.rows[Len(hist.rows)].started_at,
                       hist.rows[Len(hist.rows)].started_at + 1 } :
          hist' = [hist EXCEPT !.rows = Append(@, [id |-> Len(@) + 1, started_at |-> t])]
    /\ UNCHANGED <<alerts, reserves, park_mappings, sync_history, isRunning, task,
                   appPc, run, lastLog, env, server, csv, scheduler>>

\* getSyncHistory(limit) is called
HistoryQuery ==
    /\ hist.pc = "open"
    /\ \E limit \in 0..(MaxHistory + 1) :
          \E result \in getSyncHistory(hist.rows, limit) :
             hist' = [hist EXCEPT !.limit = limit, !.result = result, !.pc = "returned"]
    /\ UNCHANGED <<alerts, reserves, park_mappings, sync_history, isRunning, task,
                   appPc, run, lastLog, env, server, csv, scheduler>>

\* The process starts with an empty log
HistoryInit == Init /\ env = "alerts"

HistoryNext == HistoryRunStarts \/ HistoryQuery

HistorySpec == HistoryInit /\ [][HistoryNext]_vars

\* The environments in which termination is examined: the storage fails, the
\* operator starts runs and stops the process, the schedule cannot be started,
\* the web server runs beside the collector, the schedule is changed from outside
FairEnvironments == {"faults", "manual", "invalidCron", "server", "reschedule"}

FairInit == Init /\ env \in FairEnvironments

\* The event loop runs a continuation once the promise it awaits has settled:
\* a run whose fetch has returned takes its next step, and the finally block of
\* runSync runs once syncAll has returned or thrown.
FairSpec ==
    /\ FairInit
    /\ [][Next]_vars
    /\ \A c \in Callers : WF_vars(Alive /\ SyncAllStep(c))
    /\ WF_vars(RunSyncFinally)

-----------------------------------------------------------------------------
(* Properties *)

InFlight(c) == run[c].pc \notin {"idle", "returned"}

\* syncAll of caller c has returned and its caller has not yet moved on
RunEnded(c) == run[c].pc = "returned"

\* No syncAll is between its first and its last statement
Quiescent == \A c \in Callers : ~InFlight(c)

\* The sync_history row of the run of caller c
Row(c) == sync_history[run[c].syncId]

Horizons == {0, 1}

\* What the run of caller c fetched for horizon h
FetchedOf(c, h) == IF h = 0 THEN run[c].current ELSE run[c].future

\* The natural keys of a fetched list
FetchedKeys(result, h) ==
    { <<result.data[i].ID, result.data[i].Park, h>> : i \in DOMAIN result.data }

\* Every fetched record of the run was built and written
AllProcessed(c) == run[c].stats.alertsProcessed = run[c].stats.alertsFetched

\* A run that completed and that no other run overlapped
SoloCompleted(c) ==
    /\ RunEnded(c)
    /\ ~EnvEarlyRunNow(env)
    /\ Row(c).sync_status = "completed"

\* Every alert the run fetched has an active row of its alert id and horizon
FetchedAreActive(c) ==
    \A h \in Horizons :
        FetchedOf(c, h).success =>
            \A i \in DOMAIN FetchedOf(c, h).data :
                \E row \in alerts : /\ row.alert_id = FetchedOf(c, h).data[i].ID
                                    /\ row.is_future = h
                                    /\ row.is_active = 1

\* The upstream answers one run can get in environment e
Inputs(e) ==
    [reserve : EnvReserveResults(e), file : EnvOverrideFiles(e),
     current : FetchResults(EnvFetchItems(e)), future : FetchResults(EnvFetchItems(e))]

\* C1 (soft-delete correctness): when a run has ended, every alert row that was
\* active when it started and whose natural key is absent from the list
\* fetched for its horizon is still there with its attributes and is_active = 0,
\* and the table has no fewer rows than before.
C1_SoftDelete ==
    \A c \in Callers :
        SoloCompleted(c) =>
            /\ Cardinality(alerts) >= Cardinality(run[c].before)
            /\ \A A \in run[c].before :
                   ( /\ A.is_active = 1
                     /\ FetchedOf(c, A.is_future).success
                     /\ NaturalKey(A) \notin FetchedKeys(FetchedOf(c, A.is_future),
                                                        A.is_future) )
                   => [A EXCEPT !.is_active = 0] \in alerts

\* C2 (re-activation): after a run whose fetches were written in full, every
\* alert present in a fetch has a row with is_active = 1, also when the row
\* was stored before and flipped inactive at the start of the run.
C2_Reactivation ==
    \A c \in Callers :
        (SoloCompleted(c) /\ AllProcessed(c)) => FetchedAreActive(c)

\* C3 (idempotence): from a state in which no run is in flight, syncAll run
\* twice in a row on the same upstream answers leaves the three tables after
\* the second run as they were after the first.
C3_Idempotence ==
    Quiescent =>
        \A in \in Inputs(env) :
            \A d1 \in syncAll(Tables(alerts, reserves, park_mappings), in) :
                \A d2 \in syncAll(d1, in) : d2 = d1

\* C4 (non-overlap): the initial sync and a sync started by the Scheduler are
\* never in flight at the same time.
C4_NonOverlap == ~(InFlight("app") /\ InFlight("sched"))

\* C5 (natural key): no two rows share (alert_id, park_id, is_future), and after
\* a run whose fetches were written in full every fetched natural key has its
\* own row: the same alert id under two parks, or in both horizons, is two rows.
C5_NaturalKey ==
    /\ \A r1, r2 \in alerts : NaturalKey(r1) = NaturalKey(r2) => r1 = r2
    /\ \A c \in Callers :
           (SoloCompleted(c) /\ AllProcessed(c)) =>
               \A h \in Horizons :
                   FetchedOf(c, h).success =>
                       FetchedKeys(FetchedOf(c, h), h)
                           \subseteq { NaturalKey(row) : row \in alerts }

\* C6 (mapping stability): no step changes or removes the object_id of a
\* park_mappings row that exists.
C6_MappingStability ==
    [][\A m \in park_mappings :
           \E m2 \in park_mappings' : /\ m2.park_id = m.park_id
                                      /\ m2.object_id = m.object_id]_vars

\* A run has processed an alert of a park whose mapping differs from every
\* reserve the matcher would find for it now
C6_Witness ==
    \E c \in Callers, m \in park_mappings :
        /\ RunEnded(c)
        /\ run[c].current.success
        /\ \E i \in DOMAIN run[c].current.data : run[c].current.data[i].Park = m.park_id
        /\ MatchCandidates(reserves, ParkName[m.park_id]) # {}
        /\ \A r \in MatchCandidates(reserves, ParkName[m.park_id]) :
               r.object_id # m.object_id

\* C7 (matching precedence): from the load of the override file to the end of
\* the run, a park that had no mapping and has an override entry with a target
\* is mapped to the entry's object_id.
C7_OverridePrecedence ==
    \A c \in Callers :
        run[c].pc \in {"fetchAlerts", "currentDone", "alertsDone", "returned"} =>
            \A o \in run[c].overridden :
                /\ \E m \in park_mappings : m.park_id = o.park_id
                /\ \A m \in park_mappings :
                       m.park_id = o.park_id => m.object_id = o.object_id

\* A run has ended that read an override for a park without mapping, found a
\* different reserve under the park's name and processed an alert of the park
C7_Witness ==
    \E c \in Callers :
        /\ RunEnded(c)
        /\ run[c].current.success
        /\ \E o \in run[c].overridden :
               /\ \E i \in DOMAIN run[c].current.data :
                      run[c].current.data[i].Park = o.park_id
               /\ \E r \in MatchCandidates(reserves, ParkName[o.park_id]) :
                      r.object_id # o.object_id
               /\ \E m \in park_mappings : /\ m.park_id = o.park_id
                                           /\ m.object_id = o.object_id

\* C8 (partial failure isolation): a run whose reserve fetch failed and whose
\* alert fetches both succeeded ends 'completed' with reserves_fetched = 0,
\* reserves_processed = 0 and errors >= 1, and every alert it fetched and wrote
\* is active.
C8_PartialFailure ==
    \A c \in Callers :
        ( /\ RunEnded(c)
          /\ ~EnvEarlyRunNow(env)
          /\ ~run[c].reserveOk
          /\ run[c].current.success
          /\ run[c].future.success )
        => /\ Row(c).sync_status = "completed"
           /\ Row(c).reserves_fetched = 0
           /\ Row(c).reserves_processed = 0
           /\ Row(c).errors >= 1
           /\ AllProcessed(c) => FetchedAreActive(c)

SkipStep ==
    /\ lastLog' # lastLog
    /\ Len(lastLog') >= 1
    /\ lastLog'[Len(lastLog')] = "Sync already in progress, skipping this run"

\* The step is a call of runSync that set the guard and called syncAll
StartStep == run["sched"].pc = "idle" /\ run'["sched"].pc # "idle"

\* C11 (guard release): the guard is set exactly while a run started through
\* the Scheduler is between its start and its finally block; the step that ends
\* such a run, 'completed' or 'failed', clears the guard and leaves the cron
\* task as it was; a call of runSync is skipped only while such a run is in
\* progress, so a run that has ended never makes a later tick skip; the task
\* leaves the schedule only by stop(), at shutdown or called from outside.
C11_GuardReleased ==
    [][/\ isRunning <=> run["sched"].pc # "idle"
       /\ (run["sched"].pc = "returned" /\ run'["sched"].pc = "idle") =>
              /\ ~isRunning'
              /\ task' = task
       /\ SkipStep => run["sched"].pc # "idle"
       /\ (task = "scheduled" /\ task' # "scheduled") =>
              \/ appPc' = "exited"
              \/ scheduler'.calls # scheduler.calls /\ scheduler'.call = "stop"]_vars

\* A run started by a tick has ended 'failed' and has left its finally block:
\* the guard is clear and the task is scheduled
C11_Witness ==
    /\ ~EnvEarlyRunNow(env)
    /\ Len(sync_history) = 2
    /\ sync_history[2].sync_status = "failed"
    /\ run["sched"].pc = "idle"
    /\ ~isRunning
    /\ task = "scheduled"

\* C12 (skipped tick): a call of runSync that finds a run in progress changes
\* nothing but the console: the guard stays set, no sync_history row is added,
\* no table is written, the run in progress keeps its position; and a tick
\* starts a run only when no run is in flight.
C12_SkippedTick ==
    [][/\ SkipStep =>
              /\ isRunning /\ isRunning'
              /\ InFlight("sched") \/ RunEnded("sched")
              /\ UNCHANGED <<alerts, reserves, park_mappings, sync_history, run, task>>
       /\ (StartStep /\ lastLog' = <<"Starting scheduled sync">>) =>
              \A c \in Callers : ~InFlight(c)]_vars

\* A tick has been skipped while a run started by an earlier tick is in flight
C12_Witness ==
    /\ lastLog = <<"Sync already in progress, skipping this run">>
    /\ ~EnvEarlyRunNow(env)
    /\ InFlight("sched")
    /\ isRunning
    /\ Len(sync_history) = 2
    /\ sync_history[2].sync_status = "running"

\* The last call into the Scheduler was runNow()
LastCallWasRunNow ==
    /\ Len(lastLog) >= 1
    /\ lastLog[1] = "Running sync immediately..."

\* C13 (manual run): every call of runNow() invokes syncAll: the call does not
\* end at the guard of runSync.
C13_RunNowSyncs ==
    LastCallWasRunNow => lastLog[Len(lastLog)] = "Starting scheduled sync"

\* What a reader gets who asks for the active alerts of table tbl
Active(tbl) == { row \in tbl : row.is_active = 1 }

\* C14 (readers mid-run): every alerts table a run has committed before its
\* last write shows a reader either the active set from before the run or the
\* active set after the run.
C14_ReadersSeeOldOrNew ==
    \A c \in Callers :
        (RunEnded(c) /\ ~EnvEarlyRunNow(env)) =>
            \A tbl \in run[c].readable :
                \/ Active(tbl) = Active(run[c].before)
                \/ Active(tbl) = Active(alerts)

\* The active alerts of horizon h in table tbl
ActiveOf(tbl, h) == { row \in Active(tbl) : row.is_future = h }

\* C15 (failing run keeps the served state): when a run has ended, every
\* horizon whose fetch failed, and every horizon of a run that ended 'failed',
\* has the active alerts it had when the run started.
C15_FailedHorizonKept ==
    \A c \in Callers :
        (RunEnded(c) /\ ~EnvEarlyRunNow(env)) =>
            \A h \in Horizons :
                (~FetchedOf(c, h).success \/ Row(c).sync_status = "failed")
                    => ActiveOf(alerts, h) = ActiveOf(run[c].before, h)

\* The rows a step flips from active to inactive
Flipped ==
    { row \in Active(alerts) : /\ row \notin alerts'
                               /\ [row EXCEPT !.is_active = 0] \in alerts' }

\* The step is the mark-all-inactive statement of a run
MarkStep ==
    \E c \in Callers : run[c].pc = "reservesSynced" /\ run'[c].pc = "fetchAlerts"

\* The step is one of a run that has completed its mark-all-inactive statement
AfterMarkStep ==
    \E c \in Callers : run[c].pc \in {"fetchAlerts", "currentDone"} /\ run'[c] # run[c]

\* C16 (atomic mark-all-inactive): the mark step of a run leaves every row in
\* the table, each with is_active = 0 and otherwise unchanged; no other step
\* flips a row to inactive, so in every state, and so wherever the process
\* stops, the rows are flipped all or none; every other change of the alerts
\* table is made by a run that has completed its mark step.
C16_AtomicMark ==
    [][/\ MarkStep =>
              /\ alerts' = { [row EXCEPT !.is_active = 0] : row \in alerts }
              /\ Flipped = Active(alerts)
       /\ Flipped # {} => MarkStep
       /\ (alerts' # alerts /\ ~MarkStep) => AfterMarkStep]_vars

\* A run has just marked two active alerts inactive and has not yet fetched
C16_Witness ==
    \E c \in Callers :
        /\ run[c].pc = "fetchAlerts"
        /\ Cardinality(Active(run[c].before)) = 2
        /\ Cardinality(alerts) = 2
        /\ Active(alerts) = {}

\* Exactly one of the two alert fetches of the run of caller c failed
OneHorizonFailed(c) ==
    /\ run[c].pc \in {"alertsDone", "returned"}
    /\ Row(c).sync_status # "failed"
    /\ run[c].current.success # run[c].future.success

\* C17 (independent horizons): when a run has ended in which exactly one of the
\* two alert fetches failed, the failed fetch counts one error (next to at most
\* one of the reserve stage), the alerts of the other horizon are counted as
\* fetched, and when all of them were processed each has an active row.
C17_IndependentHorizons ==
    \A c \in Callers :
        (RunEnded(c) /\ ~EnvEarlyRunNow(env) /\ OneHorizonFailed(c)) =>
            /\ Row(c).errors \in 1..2
            /\ (run[c].reserveOk /\ env # "faults") => Row(c).errors = 1
            /\ \A h \in Horizons :
                   FetchedOf(c, h).success =>
                       Row(c).alerts_fetched = Len(FetchedOf(c, h).data)
            /\ Row(c).alerts_processed <= Row(c).alerts_fetched
            /\ AllProcessed(c) => FetchedAreActive(c)

\* C18 (stop and shutdown): once the shutdown hook has stopped the scheduler,
\* no task is scheduled, and a run that was in flight at that moment has run to
\* its end: when the process has exited no sync_history row is left 'running'.
C18_ShutdownLetsRunFinish ==
    appPc = "exited" =>
        /\ task = "null"
        /\ \A id \in DOMAIN sync_history : sync_history[id].sync_status # "running"

\* C19 (invalid cron expression): when the configured expression is no cron
\* expression, no task is ever scheduled and runSync is never called by a tick;
\* start() throws, the error names the expression, and the process ends with
\* that error on the console.
C19_InvalidCronFailsFast ==
    ~validate(EnvCronSchedule(env)) =>
        /\ task = "null"
        /\ appPc # "running"
        /\ lastLog \in {<<>>, <<"Fatal error:", "Invalid cron expression: ",
                                EnvCronSchedule(env)>>}
        /\ run["sched"].pc = "idle"
        /\ (appPc = "fatal") <=> (lastLog # <<>>)

\* start() has thrown for the expression "every hour" after the initial sync
C19_Witness ==
    /\ ~validate(EnvCronSchedule(env))
    /\ appPc = "fatal"
    /\ task = "null"
    /\ Len(sync_history) = 1
    /\ lastLog = <<"Fatal error:", "Invalid cron expression: ", "every hour">>

\* No override file of the environment names the park
NoOverrideFor(park) ==
    \A file \in EnvOverrideFiles(env) : \A i \in DOMAIN file : file[i].park_id # park

\* No override and no tier resolves the park against the reserves table
Unmatched(park) ==
    /\ NoOverrideFor(park)
    /\ ParkName[park] # NotAString
    /\ MatchCandidates(reserves, ParkName[park]) = {}

\* The park has no row in park_mappings
NoMappingRow(park) == \A m \in park_mappings : m.park_id # park

\* C20 (unmatched park): when a run has ended, a park of a fetched alert that no
\* override and no tier resolves has no park_mappings row, and, when every
\* fetched alert was processed, the alert has an active row of its horizon.
C20_UnmatchedPark ==
    \A c \in Callers :
        (RunEnded(c) /\ ~EnvEarlyRunNow(env)) =>
            \A h \in Horizons :
                FetchedOf(c, h).success =>
                    \A i \in DOMAIN FetchedOf(c, h).data :
                        LET alert == FetchedOf(c, h).data[i]
                        IN  Unmatched(alert.Park) =>
                                /\ NoMappingRow(alert.Park)
                                /\ AllProcessed(c) =>
                                       \E row \in alerts : /\ row.alert_id = alert.ID
                                                           /\ row.is_future = h
                                                           /\ row.is_active = 1

\* The object ids the first tier that finds a reserve for the name offers
FirstHit(name) ==
    LET ids(rows) == { row.object_id : row \in rows }
    IN  IF getReserveByName(reserves, name) # {}
        THEN ids(getReserveByName(reserves, name))
        ELSE IF getReserveByNameIgnoringCCAZone(reserves, name) # {}
        THEN ids(getReserveByNameIgnoringCCAZone(reserves, name))
        ELSE IF IsFloraReserveName(name)
        THEN ids(getReserveByLocationPattern(reserves, name))
        ELSE {}

\* C22 (tier order): a mapping row that a step of processAlerts creates points
\* to a reserve the exact name match finds; when that finds none, to one the
\* match on the name without zone qualifier finds; when that finds none either
\* and the park name ends in 'Flora Reserve(s)', to one the location match
\* finds; and a mapping row, once stored, is never changed.
C22_TierOrder ==
    [][/\ \A m \in park_mappings : m \in park_mappings'
       /\ AfterMarkStep =>
              \A m \in park_mappings' \ park_mappings :
                  m.object_id \in FirstHit(ParkName[m.park_id])]_vars

\* The zoned park is mapped by the exact match although the match without the
\* qualifier finds another reserve, and the Flora Reserve, mapped by its
\* location in an earlier run, keeps that mapping now that a reserve of its
\* name is stored
C22_Witness ==
    /\ TierRows.plain \in reserves
    /\ TierRows.named \in reserves
    /\ \E m \in park_mappings : m.park_id = "P4" /\ m.object_id = TierRows.zoned.object_id
    /\ \E m \in park_mappings : m.park_id = "P2" /\ m.object_id = TierRows.bucket.object_id

\* The step processes a current fetch of one alert, of park P1, named
\* "Wollemi NP", which has no mapping, while the reserves table holds object
\* 42 under the name "Wollemi National Park"
ScenarioStep(c) ==
    /\ run[c].pc = "fetchAlerts"
    /\ run'[c].pc = "currentDone"
    /\ run'[c].current.success
    /\ Len(run'[c].current.data) = 1
    /\ run'[c].current.data[1].Park = "P1"
    /\ ParkName["P1"] = "Wollemi NP"
    /\ NoMappingRow("P1")
    /\ ScenarioReserve \in reserves

\* C23 (scenario, as the code decides it): the step of the scenario creates no
\* park_mappings row for P1, since "Wollemi NP" equals "Wollemi National Park"
\* in no tier, and stores the alert; the row {P1, 42} is created by such a
\* step exactly when reserve 42 carries the park's name up to case.
C23_ScenarioUnmatched ==
    [][\A c \in Callers :
           /\ ScenarioStep(c) =>
                  /\ \A m \in park_mappings' : m.park_id # "P1"
                  /\ \E row \in alerts' : row.alert_id = run'[c].current.data[1].ID
                                          /\ row.park_id = "P1"
           /\ ( /\ run[c].pc = "fetchAlerts" /\ run'[c].pc = "currentDone"
                /\ ParkName["P1"] = "Wollemi NP"
                /\ NoMappingRow("P1")
                /\ run'[c].current.success /\ run'[c].current.data # <<>> )
              => ( (\E m \in park_mappings' : m.park_id = "P1" /\ m.object_id = 42)
                   <=> (\E r \in reserves : r.object_id = 42 /\ r.name = "WOLLEMI NP") )]_vars

\* C23 as stated: the step of the scenario leaves the row {P1, 42}
C23_ScenarioMapped ==
    [][\A c \in Callers :
           ScenarioStep(c) =>
               \E m \in park_mappings' : m.park_id = "P1" /\ m.object_id = 42]_vars

\* The run of the scenario has ended: the alert of "Wollemi NP" is stored, the
\* reserve "Wollemi National Park" is object 42, and P1 has no mapping
C23_Witness ==
    \E c \in Callers :
        /\ RunEnded(c)
        /\ ParkName["P1"] = "Wollemi NP"
        /\ run[c].current.success /\ Len(run[c].current.data) = 1
        /\ reserves = {ScenarioReserve}
        /\ NoMappingRow("P1")
        /\ \E row \in alerts : row.park_id = "P1" /\ row.is_future = 0

\* The place of a position of syncAll in the order of its statements
StepRank(pc) ==
    CASE pc = "idle"           -> 0
      [] pc = "fetchReserves"  -> 1
      [] pc = "reservesSynced" -> 2
      [] pc = "fetchAlerts"    -> 3
      [] pc = "currentDone"    -> 4
      [] pc = "alertsDone"     -> 5
      [] pc = "threw"          -> 5
      [] pc = "returned"       -> 6

\* The rows of alerts a step writes or changes
Written == alerts' \ alerts

\* C24 (step order): a run moves one statement at a time along: row created,
\* reserves synced, overrides loaded and alerts marked inactive, alerts fetched
\* and current horizon upserted, future horizon upserted, row finalized; the
\* catch block is entered only from the load-and-mark statement, and then
\* without the mark; each step writes only the tables of its statement.
C24_StepOrder ==
    [][\A c \in Callers :
           run'[c].pc # run[c].pc =>
               /\ \/ StepRank(run'[c].pc) = StepRank(run[c].pc) + 1
                  \/ run[c].pc = "reservesSynced" /\ run'[c].pc = "threw"
                  \/ run[c].pc = "returned" /\ run'[c].pc = "idle"
               /\ run[c].pc = "idle" =>
                      /\ Len(sync_history') = Len(sync_history) + 1
                      /\ UNCHANGED <<alerts, reserves, park_mappings>>
               /\ run[c].pc = "fetchReserves" =>
                      UNCHANGED <<alerts, park_mappings, sync_history>>
               /\ run[c].pc = "reservesSynced" =>
                      /\ UNCHANGED <<reserves, sync_history>>
                      /\ run'[c].pc = "threw" => alerts' = alerts
                      /\ run'[c].pc = "fetchAlerts" => Active(alerts') = {}
               /\ run[c].pc = "fetchAlerts" =>
                      /\ UNCHANGED <<reserves, sync_history>>
                      /\ \A row \in Written : row.is_future = 0
               /\ run[c].pc = "currentDone" =>
                      /\ UNCHANGED <<reserves, sync_history>>
                      /\ \A row \in Written : row.is_future = 1
               /\ run[c].pc \in {"alertsDone", "threw"} =>
                      /\ UNCHANGED <<alerts, reserves, park_mappings>>
                      /\ sync_history'[run[c].syncId].sync_status # "running"
               /\ run[c].pc = "returned" =>
                      UNCHANGED <<alerts, reserves, park_mappings, sync_history>>]_vars

\* A run has gone through every statement: reserves stored, an alert of each
\* horizon stored, its row 'completed'; and an earlier run ended 'failed'
C24_Witness ==
    \E c \in Callers :
        /\ RunEnded(c)
        /\ run[c].reserveOk
        /\ run[c].current.success /\ run[c].current.data # <<>>
        /\ run[c].future.success /\ run[c].future.data # <<>>
        /\ \E row \in alerts : row.is_future = 0
        /\ \E row \in alerts : row.is_future = 1
        /\ Row(c).sync_status = "completed"
        /\ \E id \in DOMAIN sync_history : sync_history[id].sync_status = "failed"

\* The step is one of a run whose reserve fetch has failed, after syncReserves
AfterFailedReserveFetch(c) ==
    /\ run[c].pc = "reservesSynced"
    /\ ~run[c].reserveOk
    /\ run'[c].pc # run[c].pc

\* C25 (failed reserve fetch, as the code decides it): a failed reserve fetch
\* counts one error, writes no reserve and does not abort the run: the run goes
\* on with the load of the override file and the mark of every alert as
\* inactive, and then fetches; mappings it creates point to reserves stored by
\* earlier runs.
C25_FailedReserveFetchContinues ==
    [][\A c \in Callers :
           /\ (run[c].pc = "fetchReserves" /\ run'[c].pc # run[c].pc) =>
                  /\ run'[c].pc = "reservesSynced"
                  /\ ~run'[c].reserveOk =>
                         /\ reserves' = reserves
                         /\ run'[c].stats.errors = 1
           /\ (AfterFailedReserveFetch(c) /\ run'[c].pc = "fetchAlerts") =>
                  /\ alerts' = { [row EXCEPT !.is_active = 0] : row \in alerts }
                  /\ \A m \in park_mappings : m \in park_mappings'
           /\ (run[c].pc \in {"fetchAlerts", "currentDone"} /\ ~run[c].reserveOk
                 /\ run'[c].pc # run[c].pc) =>
                  \A m \in park_mappings' \ park_mappings :
                      \E r \in reserves : r.object_id = m.object_id]_vars

\* C25 as stated: after a failed reserve fetch the run reaches the alert fetch
\* with the override file not loaded and no alert marked inactive
C25_FailedReserveFetchSkips ==
    [][\A c \in Callers :
           AfterFailedReserveFetch(c) => UNCHANGED <<alerts, park_mappings>>]_vars

\* A run whose reserve fetch failed has ended 'completed': it marked the
\* active alerts inactive and processed fetched alerts while the store holds a
\* reserve and a mapping to it from an earlier run
C25_Witness ==
    \E c \in Callers :
        /\ RunEnded(c)
        /\ ~run[c].reserveOk
        /\ Row(c).sync_status = "completed"
        /\ Row(c).errors >= 1
        /\ Active(run[c].before) # {}
        /\ \E tbl \in run[c].readable : tbl # {} /\ Active(tbl) = {}
        /\ run[c].current.success /\ run[c].current.data # <<>>
        /\ \E m \in park_mappings : \E r \in reserves : r.object_id = m.object_id

\* The places in a fetched list of the records processAlerts cannot build
Unprocessable(result) ==
    { i \in DOMAIN result.data : ParkName[result.data[i].Park] = NotAString }

\* The run of caller c met no failure but unprocessable records
OnlyRecordFailures(c) ==
    /\ RunEnded(c)
    /\ ~EnvEarlyRunNow(env)
    /\ env # "faults"
    /\ run[c].reserveOk
    /\ run[c].current.success
    /\ run[c].future.success

\* C26 (malformed record): when a run has ended that met no failure but
\* records that cannot be processed, every other fetched record has its row in
\* the alerts table and the recorded error count is the number of records
\* skipped.
C26_SkippedAndCounted ==
    \A c \in Callers :
        OnlyRecordFailures(c) =>
            /\ \A h \in Horizons :
                   \A i \in DOMAIN FetchedOf(c, h).data \ Unprocessable(FetchedOf(c, h)) :
                       \E row \in alerts : /\ row.alert_id = FetchedOf(c, h).data[i].ID
                                           /\ row.is_future = h
            /\ Row(c).errors = Cardinality(Unprocessable(run[c].current))
                                 + Cardinality(Unprocessable(run[c].future))

\* The fetched alerts of the run of caller c that a failed batch write lost
LostInBatch(c) ==
    Row(c).alerts_fetched - Row(c).alerts_processed
        - Cardinality(Unprocessable(run[c].current))
        - Cardinality(Unprocessable(run[c].future))

\* The errors the run of caller c counts for its fetches and its reserve batch
ErrorsBesideAlertBatches(c) ==
    (IF run[c].reserveOk THEN 0 ELSE 1)
      + (IF Row(c).reserves_processed < Row(c).reserves_fetched THEN 1 ELSE 0)
      + Cardinality({ h \in Horizons : ~FetchedOf(c, h).success })

\* C27 (storage failure of a batch): when a run has ended in which the write of
\* an alert batch failed, the run is recorded 'failed' or with an error counted
\* for that batch; a reserve batch that failed has written nothing and is
\* counted as an error.
C27_BatchFailureSurfaces ==
    \A c \in Callers :
        (RunEnded(c) /\ ~EnvEarlyRunNow(env) /\ Row(c).sync_status = "completed") =>
            /\ Row(c).reserves_processed < Row(c).reserves_fetched => Row(c).errors >= 1
            /\ LostInBatch(c) > 0 => Row(c).errors > ErrorsBesideAlertBatches(c)

\* C28 (silent data loss): when a run has ended with alerts_processed =
\* alerts_fetched and no error counted, every fetched alert has an active row
\* of its own: of its alert id, its park and its horizon.
C28_LossDetectable ==
    \A c \in Callers :
        ( /\ RunEnded(c)
          /\ ~EnvEarlyRunNow(env)
          /\ Row(c).alerts_processed = Row(c).alerts_fetched
          /\ Row(c).errors = 0 )
        => \A h \in Horizons :
               \A i \in DOMAIN FetchedOf(c, h).data :
                   \E row \in alerts : /\ row.alert_id = FetchedOf(c, h).data[i].ID
                                       /\ row.park_id = FetchedOf(c, h).data[i].Park
                                       /\ row.is_future = h
                                       /\ row.is_active = 1

\* The step is a syncReserves that fetched and wrote its batch
ReserveSyncStep(c) ==
    /\ run[c].pc = "fetchReserves"
    /\ run'[c].pc = "reservesSynced"
    /\ run'[c].reserveOk
    /\ run'[c].stats.reservesProcessed = run'[c].stats.reservesFetched

\* C29 (reserve upsert): the reserves table has one row per object_id; a step
\* that fetched and wrote the reserves leaves every fetched record as the row
\* of its object_id and every row of another object_id as it was; no other
\* step changes the table, so no row is ever deleted.
C29_ReserveUpsert ==
    [][/\ \A r1, r2 \in reserves' : r1.object_id = r2.object_id => r1 = r2
       /\ \A r \in reserves : \E r2 \in reserves' : r2.object_id = r.object_id
       /\ \A c \in Callers :
              ReserveSyncStep(c) =>
                  LET fetched == { run'[c].catalog[i] : i \in DOMAIN run'[c].catalog }
                  IN  /\ fetched \subseteq reserves'
                      /\ \A r \in reserves :
                             (\A d \in fetched : d.object_id # r.object_id)
                                 => r \in reserves'
       /\ reserves' # reserves => \E c \in Callers : ReserveSyncStep(c)]_vars

\* A reserve sync has renamed the row of object 1 and written nothing for
\* object 2, which the fetch did not return and which is still stored
C29_Witness ==
    \E c \in Callers :
        /\ run[c].pc = "reservesSynced"
        /\ run[c].reserveOk
        /\ run[c].catalog = Catalog1
        /\ reserves = { Catalog1[1], Catalog2[2] }

\* The step is one of the web server: its startup
ServerStep == server' # server

\* C30 (read side writes nothing): no step of the web server, its startup
\* included, changes a row of alerts, park_mappings, reserves or sync_history
\* or starts a run.
C30_ServerReadOnly ==
    [][ServerStep =>
           UNCHANGED <<alerts, park_mappings, reserves, sync_history, run>>]_vars

\* The reserve columns the two LEFT JOINs add to an alert row: the object_id of
\* the reserve the park's mapping points to, null when the park has no mapping
\* or the reserve is not stored
JoinedReserve(pm, res, row) ==
    LET hit == { r \in res : \E m \in getParkMapping(pm, row.park_id) :
                               r.object_id = m.object_id }
    IN  IF hit = {} THEN NullObjectId ELSE (CHOOSE r \in hit : TRUE).object_id

\* GET /api/alerts: SELECT * FROM alerts WHERE 1=1, AND is_active = 1 unless
\* include_inactive is 'true'
apiAlerts(tbl, include_inactive) ==
    IF include_inactive THEN tbl ELSE { row \in tbl : row.is_active = 1 }

\* GET /api/alerts/with-reserves: the joined rows, AND a.is_active = 1 unless
\* include_inactive is 'true'
apiAlertsWithReserves(tbl, pm, res, include_inactive) ==
    { [alert |-> row, reserve_object_id |-> JoinedReserve(pm, res, row)] :
        row \in apiAlerts(tbl, include_inactive) }

\* NPWSDatabase.getAlertsWithReserves: the joined rows WHERE a.is_future = ?
getAlertsWithReserves(tbl, pm, res, isFuture) ==
    { [alert |-> row, reserve_object_id |-> JoinedReserve(pm, res, row)] :
        row \in { a \in tbl : a.is_future = IsFuture(isFuture) } }

\* exportAsGeoJSON: one feature per row of getAlertsWithReserves(false) whose
\* reserve is found (the centroid comes from the reserve row)
exportAsGeoJSON(tbl, pm, res) ==
    { j.alert : j \in { g \in getAlertsWithReserves(tbl, pm, res, FALSE) :
                          g.reserve_object_id # NullObjectId } }

\* C31 (reads see active rows only): while no run is in flight, the rows the
\* /api/alerts and /api/alerts/with-reserves handlers return by default, the
\* rows getAlertsWithReserves returns and the features of the GeoJSON export
\* are all rows with is_active = 1.
C31_ReadsOnlyActive ==
    Quiescent =>
        /\ \A row \in apiAlerts(alerts, FALSE) : row.is_active = 1
        /\ \A j \in apiAlertsWithReserves(alerts, park_mappings, reserves, FALSE) :
              j.alert.is_active = 1
        /\ \A isFuture \in BOOLEAN :
              \A j \in getAlertsWithReserves(alerts, park_mappings, reserves, isFuture) :
                 j.alert.is_active = 1
        /\ \A row \in exportAsGeoJSON(alerts, park_mappings, reserves) :
              row.is_active = 1

\* The step is the one of the run of caller c that loads the override file and
\* marks the alerts inactive
LoadStep(c) ==
    /\ run[c].pc = "reservesSynced"
    /\ run'[c].pc \in {"fetchAlerts", "threw"}

\* C32 (override load never fails the run): when the override file is missing
\* or cannot be read, loadManualMappings returns the empty list and does not
\* throw, the load leaves park_mappings as it is and takes no override for the
\* run, and the run goes on to mark every alert inactive and to fetch the
\* alerts; it stops there only where the storage fails the mark statement.
C32_MissingFileIsNoError ==
    [][\A c \in Callers :
          (LoadStep(c) /\ ~(csv'.disk.exists /\ csv'.disk.readable)) =>
              /\ csv'.pc = "returned"
              /\ ~csv'.threw
              /\ csv'.mappings = <<>>
              /\ park_mappings' = park_mappings
              /\ \/ /\ run'[c].pc = "fetchAlerts"
                    /\ run'[c].overridden = {}
                    /\ alerts' = markAllAlertsInactive(alerts)
                 \/ /\ FALSE \in EnvStorageOk(env)
                    /\ run'[c].pc = "threw"
                    /\ alerts' = alerts]_vars

\* A first run that found the override file unreadable has ended 'completed':
\* it processed an alert and mapped its park by automatic matching
C32_Witness ==
    \E c \in Callers :
        /\ RunEnded(c)
        /\ Len(sync_history) = 1
        /\ csv.pc = "returned"
        /\ csv.disk = UnreadableCsv
        /\ Row(c).sync_status = "completed"
        /\ run[c].overridden = {}
        /\ run[c].stats.alertsProcessed > 0
        /\ park_mappings # {}

\* The status of the sync_history row with the given id ("none": no such row)
StatusOf(id) ==
    IF id \in DOMAIN sync_history THEN sync_history[id].sync_status ELSE "none"

RowsOf(rows) == { rows[i] : i \in DOMAIN rows }

TrimmedLine(i) == trim(csv.disk.lines[i])

\* The line is neither blank nor a comment
Significant(i) == TrimmedLine(i) # <<>> /\ Head(TrimmedLine(i)) # "#"

\* The comma-separated field of the line, trimmed; empty when the line has no
\* such field
Field(i, n) == trim(PartOr(split(TrimmedLine(i), <<>>), n))

\* The line makes an entry: it is significant, it is not the first such line,
\* it has two fields or more and its park_id is not empty
MakesEntry(i) ==
    /\ Significant(i)
    /\ \E j \in DOMAIN csv.disk.lines : j < i /\ Significant(j)
    /\ Len(split(TrimmedLine(i), <<>>)) >= 2
    /\ Field(i, 1) # <<>>

\* The line of the k-th entry
EntryLine(k) ==
    CHOOSE i \in DOMAIN csv.disk.lines :
        /\ MakesEntry(i)
        /\ Cardinality({ j \in DOMAIN csv.disk.lines : j <= i /\ MakesEntry(j) }) = k

\* The field is a number: digits and nothing else
Numeric(field) == field # <<>> /\ \A n \in DOMAIN field : IsDigit(field[n])

\* C35 (override file parsing): loadManualMappings returns, in file order, one
\* entry for every line that is significant, not the first such line, has two
\* fields or more and a park_id; no other line makes an entry; the entry has
\* the line's park_id and park_name, and its object_id is the number in the
\* third field when that field is numeric and null otherwise.
C35_ParsedEntries ==
    csv.pc = "returned" =>
        /\ ~csv.threw
        /\ Len(csv.mappings) =
              Cardinality({ i \in DOMAIN csv.disk.lines : MakesEntry(i) })
        /\ \A k \in DOMAIN csv.mappings :
              /\ csv.mappings[k].park_id = Text(Field(EntryLine(k), 1))
              /\ csv.mappings[k].park_name = Text(Field(EntryLine(k), 2))
              /\ csv.mappings[k].object_id =
                    IF Numeric(Field(EntryLine(k), 3))
                    THEN << Decimal(Field(EntryLine(k), 3)) >>
                    ELSE <<>>

\* The step is the rest of runSync after syncAll has settled
RunSyncResumes ==
    run["sched"].pc = "returned" /\ run'["sched"].pc = "idle"

\* C36 (reported outcome agrees with the audit log): when runSync goes on
\* after a run, it logs failure if the run's sync_history row is 'failed' and
\* success if it is 'completed'.
C36_OutcomeAgrees ==
    [][RunSyncResumes =>
          lastLog' = IF Row("sched").sync_status = "failed"
                     THEN <<"Sync failed with error:">>
                     ELSE <<"Sync completed successfully">>]_vars

\* C37 (referential integrity of mappings): in every state, every
\* park_mappings row points to a reserve that is in the reserves table.
C37_MappingsPointToReserves ==
    \A m \in park_mappings : \E r \in reserves : r.object_id = m.object_id

\* An override was refused while its target was no reserve (the first run
\* failed on it), and the next run, with the reserve stored, has taken it
C37_Witness ==
    \E c \in Callers :
        /\ RunEnded(c)
        /\ Len(sync_history) = 2
        /\ sync_history[1].sync_status = "failed"
        /\ ~EnvEarlyRunNow(env) /\ EnvStorageOk(env) = {TRUE}
        /\ run[c].overridden # {}
        /\ \E m \in park_mappings :
              \E o \in run[c].overridden :
                 m.park_id = o.park_id /\ m.object_id = o.object_id

\* The step is a call of the named method of the Scheduler from outside
CallStep(method) ==
    /\ scheduler'.calls = scheduler.calls + 1
    /\ scheduler'.call = method

\* The cron tasks scheduled and not stopped are the one this.task holds
OneTaskOrNone(tsk, tasks) == tasks = IF tsk = "scheduled" THEN 1 ELSE 0

\* C38 (updateSchedule is all-or-nothing): a call with an invalid expression
\* throws and leaves the expression, the task and isRunning as they were; a
\* call with a valid expression does not throw, stores the expression, leaves
\* isRunning as it was and leaves one scheduled task if a task was scheduled
\* before and none otherwise; and no step, a call of start() while a task
\* exists included, leaves more cron tasks than the one this.task holds.
C38_UpdateScheduleAllOrNothing ==
    [][/\ (CallStep("updateSchedule") /\ ~validate(scheduler'.arg)) =>
              /\ scheduler'.threw
              /\ scheduler'.cronSchedule = scheduler.cronSchedule
              /\ scheduler'.tasks = scheduler.tasks
              /\ UNCHANGED <<task, isRunning>>
       /\ (CallStep("updateSchedule") /\ validate(scheduler'.arg)) =>
              /\ ~scheduler'.threw
              /\ scheduler'.cronSchedule = scheduler'.arg
              /\ task' = task
              /\ isRunning' = isRunning
       /\ (CallStep("start") /\ task = "scheduled") =>
              /\ ~scheduler'.threw
              /\ UNCHANGED <<task, isRunning>>
              /\ scheduler'.cronSchedule = scheduler.cronSchedule
       /\ OneTaskOrNone(task', scheduler'.tasks)]_vars

\* While a run started by a tick is in flight, stop() and then
\* updateSchedule("*/5 * * * *") have been called: the expression is stored,
\* no task is scheduled, the guard is still set
C38_Witness ==
    /\ scheduler.calls = 2
    /\ scheduler.call = "updateSchedule"
    /\ scheduler.arg = "*/5 * * * *"
    /\ scheduler.cronSchedule = "*/5 * * * *"
    /\ ~scheduler.threw
    /\ task = "null"
    /\ scheduler.tasks = 0
    /\ appPc = "running"
    /\ isRunning
    /\ InFlight("sched")
====
